---- MODULE Spec2Model ----
(***************************************************************************)
(* A model of gitingest's source-to-digest pipeline: the query schema      *)
(* (schemas/ingestion_schema.py), the clone executor (cloning.py,          *)
(* utils/github_api.py), the orchestration of one digest run               *)
(* (entrypoint.py) and the digest formatter (output_formatters.py).        *)
(*                                                                         *)
(* Python strings are TLA+ strings, handled character by character with    *)
(* Len, SubSeq and \o.  Python's None is the value None below.             *)
(***************************************************************************)
EXTENDS Integers, Sequences, FiniteSets, TLC

VARIABLES
    input,          \* run -> the arguments of ingest_async and what parse_query resolved
    query,          \* run -> the IngestionQuery object of the run
    pc,             \* run -> where the run of ingest_async is
    clone_config,   \* run -> the CloneConfig handed to clone_repo
    probe,          \* run -> the existence probe clone_repo made and its answer
    cmds,           \* run -> the external git commands started, in order
    repo_cloned,    \* run -> ingest_async's local flag repo_cloned
    result,         \* run -> how the run ended: a digest or the error raised
    direct,         \* run -> outcome of calling query.extract_clone_config() directly
    disk,           \* the clone directories that exist on disk
    returned,       \* run -> the (summary, tree, content) triple ingest_async returned
    written,        \* run -> the text of the output file the run wrote
    node,           \* the FileSystemNode tree handed to format_node
    fmt_query,      \* the IngestionQuery handed to format_node
    ret,            \* the triples format_node returned, one per call
    fenced,         \* the section bodies the last call put between markdown fences
    web             \* the web request process_query is serving, and its response

outVars == <<returned, written>>

cloneVars == <<input, query, pc, clone_config, probe, cmds, repo_cloned, result, direct, disk, outVars>>

fmtVars == <<node, fmt_query, ret, fenced>>

vars == <<cloneVars, fmtVars, web>>

-----------------------------------------------------------------------------
(* Python values and string helpers *)

None == "<None>"

\* Python truthiness of an Optional[str]
Truthy(v) == v # None /\ v # ""

StartsWith(s, p) == Len(s) >= Len(p) /\ SubSeq(s, 1, Len(p)) = p

\* str.find, 1-based; 0 when sub does not occur in s
Find(s, sub) ==
    LET hits == {i \in 1..(Len(s) - Len(sub) + 1) : SubSeq(s, i, i + Len(sub) - 1) = sub}
    IN  IF hits = {} THEN 0 ELSE CHOOSE i \in hits : \A j \in hits : i <= j

\* str.rfind, 1-based; 0 when sub does not occur in s
RFind(s, sub) ==
    LET hits == {i \in 1..(Len(s) - Len(sub) + 1) : SubSeq(s, i, i + Len(sub) - 1) = sub}
    IN  IF hits = {} THEN 0 ELSE CHOOSE i \in hits : \A j \in hits : i >= j

\* Python's "sub in s"
Contains(s, sub) == Find(s, sub) # 0

UpperAlpha == "ABCDEFGHIJKLMNOPQRSTUVWXYZ"
LowerAlpha == "abcdefghijklmnopqrstuvwxyz"

LowerChar(c) ==
    LET i == Find(UpperAlpha, c)
    IN  IF i = 0 THEN c ELSE SubSeq(LowerAlpha, i, i)

RECURSIVE MapChars(_, _)
\* the text with every character c replaced by Op(c); the text is halved at
\* each level to keep the evaluation shallow
MapChars(Op(_), s) ==
    IF s = "" THEN ""
    ELSE IF Len(s) = 1 THEN Op(s)
    ELSE MapChars(Op, SubSeq(s, 1, Len(s) \div 2)) \o MapChars(Op, SubSeq(s, Len(s) \div 2 + 1, Len(s)))

\* str.lower
Lower(s) == MapChars(LowerChar, s)

RECURSIVE LStrip(_, _)
\* str.lstrip(c) for a one-character c
LStrip(s, c) == IF StartsWith(s, c) /\ s # "" THEN LStrip(SubSeq(s, 2, Len(s)), c) ELSE s

RECURSIVE JoinPath(_)
JoinPath(parts) == IF parts = <<>> THEN "" ELSE "/" \o Head(parts) \o JoinPath(Tail(parts))

\* str(Path): a Path is the sequence of its components below the root
PathStr(p) == IF p = <<>> THEN "/" ELSE JoinPath(p)

\* Path(s).parent.as_posix() of a relative path string
PosixParent(s) ==
    LET i == RFind(s, "/")
    IN  IF i = 0 THEN "." ELSE SubSeq(s, 1, i - 1)

HasArg(cmd, a) == \E i \in 1..Len(cmd) : cmd[i] = a

-----------------------------------------------------------------------------
(* schemas/ingestion_schema.py *)

allowed_formats == {"txt", "json", "markdown"}

\* validate_output_format with "text" let through as well
validate_output_format_text(v) ==
    IF v \notin allowed_formats \cup {"text"} THEN [raised |-> TRUE, value |-> v]
    ELSE [raised |-> FALSE, value |-> v]

\* IngestionQuery.validate_output_format: the value, or ValueError raised
validate_output_format(v) ==
    IF v \notin allowed_formats THEN [raised |-> TRUE, value |-> v]
    ELSE [raised |-> FALSE, value |-> v]

NoQuery == [ok |-> FALSE]

\* Constructing IngestionQuery(**fields): pydantic runs the field validator and
\* raises ValidationError, returning no object, when it raises
IngestionQuery(f) ==
    IF validate_output_format(f.output_format).raised THEN NoQuery
    ELSE [ok |-> TRUE,
          url |-> f.url,
          local_path |-> f.local_path,
          subpath |-> f.subpath,
          type |-> f.type,
          branch |-> f.branch,
          commit |-> f.commit,
          output_format |-> validate_output_format(f.output_format).value,
          pat_token |-> f.pat_token,
          user_name |-> f.user_name,
          repo_name |-> f.repo_name,
          slug |-> f.slug,
          include_summary |-> f.include_summary,
          include_structure |-> f.include_structure,
          include_content |-> f.include_content]

NoConfig == [ok |-> FALSE]

\* The CloneConfig dataclass
CloneConfig(url, local_path, commit, branch, subpath, blob, pat_token) ==
    [ok |-> TRUE, url |-> url, local_path |-> local_path, commit |-> commit,
     branch |-> branch, subpath |-> subpath, blob |-> blob, pat_token |-> pat_token]

\* extract_clone_config testing url against None only, so that "" passes
extract_clone_config_none_only(q) ==
    IF q.url = None THEN [raised |-> TRUE, value |-> NoConfig]
    ELSE [raised |-> FALSE,
          value |-> CloneConfig(q.url, PathStr(q.local_path), q.commit, q.branch,
                                q.subpath, q.type = "blob", q.pat_token)]

\* extract_clone_config taking the blob flag from the subpath instead of the type
extract_clone_config_blob_by_subpath(q) ==
    IF ~Truthy(q.url) THEN [raised |-> TRUE, value |-> NoConfig]
    ELSE [raised |-> FALSE,
          value |-> CloneConfig(q.url, PathStr(q.local_path), q.commit, q.branch,
                                q.subpath, q.subpath # "/", q.pat_token)]

\* IngestionQuery.extract_clone_config: the CloneConfig, or ValueError raised
extract_clone_config(q) ==
    IF ~Truthy(q.url) THEN [raised |-> TRUE, value |-> NoConfig]
    ELSE [raised |-> FALSE,
          value |-> CloneConfig(q.url, PathStr(q.local_path), q.commit, q.branch,
                                q.subpath, q.type = "blob", q.pat_token)]

-----------------------------------------------------------------------------
(* utils/github_api.py *)

\* What the GitHub API call can do: answer with a status, or fail to connect
AuthResponses == {"200", "404", "403", "500", "ClientError"}

\* check_repo_exists_authenticated: "True", "False", or the exception raised
check_repo_exists_authenticated(resp) ==
    IF resp = "ClientError" THEN "ClientError"
    ELSE IF resp = "200" THEN "True"
    ELSE IF resp = "404" THEN "False"
    ELSE "RuntimeError"

-----------------------------------------------------------------------------
(* cloning.py *)

\* urllib.parse.urlparse on scheme://netloc/path (no params, query or fragment)
urlparse(url) ==
    LET i == Find(url, "://")
        rest == SubSeq(url, i + 3, Len(url))
        j == Find(rest, "/")
    IN  IF i = 0 THEN [scheme |-> "", netloc |-> "", path |-> url]
        ELSE [scheme |-> SubSeq(url, 1, i - 1),
              netloc |-> IF j = 0 THEN rest ELSE SubSeq(rest, 1, j - 1),
              path |-> IF j = 0 THEN "" ELSE SubSeq(rest, j, Len(rest))]

\* urllib.parse.urlunparse of (scheme, netloc, path, "", "", "")
urlunparse(scheme, netloc, path) ==
    LET u == IF netloc # "" THEN "//" \o netloc \o path ELSE path
    IN  IF scheme # "" THEN scheme \o ":" \o u ELSE u

_inject_token_into_url(url, token) ==
    LET parsed == urlparse(url)
    IN  IF Contains(parsed.netloc, "github.com")
        THEN urlunparse(parsed.scheme, token \o "@" \o parsed.netloc, parsed.path)
        ELSE url

RECURSIVE RStripChars(_, _)
\* str.rstrip(chars): the trailing characters that are in chars are removed
RStripChars(s, chars) ==
    IF s # "" /\ Contains(chars, SubSeq(s, Len(s), Len(s)))
    THEN RStripChars(SubSeq(s, 1, Len(s) - 1), chars)
    ELSE s

\* clone_repo, token branch: parts = url.rstrip(".git").split("/"), then
\* owner = parts[-2] and repo = parts[-1]; not ok when parts has one element
owner_repo(url) ==
    LET cut == RStripChars(url, ".git")
        j == RFind(cut, "/")
        head == SubSeq(cut, 1, j - 1)
    IN  IF j = 0 THEN [ok |-> FALSE]
        ELSE [ok |-> TRUE, owner |-> SubSeq(head, RFind(head, "/") + 1, Len(head)),
              repo |-> SubSeq(cut, j + 1, Len(cut))]

NoError == "<no error>"
NotFound == "ValueError: Repository not found or access denied"

\* the token branch without its except clause: the error of the probe leaves clone_repo
probe_authenticated_raising(resp) ==
    LET exists == check_repo_exists_authenticated(resp)
    IN  [error |-> IF exists = "True" THEN NoError
                   ELSE IF exists = "False" THEN NotFound
                   ELSE exists,
         warned |-> FALSE]

\* clone_repo, token branch of the existence check: the awaited probe inside
\* try/except Exception; the error that leaves the block, and whether the
\* warning was printed
probe_authenticated(resp) ==
    LET exists == check_repo_exists_authenticated(resp)
        inTry == IF exists = "True" THEN NoError
                 ELSE IF exists = "False" THEN NotFound
                 ELSE exists
    IN  \* except Exception as e: print the warning and go on
        [error |-> NoError, warned |-> inTry # NoError]

\* the tokenless branch going on whatever the probe answers
probe_unauthenticated_ignoring(exists) == NoError

\* clone_repo, tokenless branch of the existence check
probe_unauthenticated(exists) == IF ~exists THEN NotFound ELSE NoError

partial_clone(config) == config.subpath # "/"

\* depth_args cloning shallow whether or not a commit is wanted
depth_args_always_shallow(config) ==
    <<"--depth=1">> \o
    (IF Truthy(config.branch) /\ Lower(config.branch) \notin {"main", "master"}
     THEN <<"--branch", config.branch>> ELSE <<>>)

\* clone_repo: the depth and branch arguments of git clone
depth_args(config) ==
    IF ~Truthy(config.commit)
    THEN <<"--depth=1">> \o
         (IF Truthy(config.branch) /\ Lower(config.branch) \notin {"main", "master"}
          THEN <<"--branch", config.branch>> ELSE <<>>)
    ELSE <<>>

\* clone_repo: the URL argument of git clone
clone_url(config) ==
    IF Truthy(config.pat_token)
    THEN _inject_token_into_url(config.url, config.pat_token)
    ELSE config.url

\* clone_repo: the git clone command line
clone_cmd(config) ==
    <<"git", "clone", "--single-branch">>
    \o (IF partial_clone(config) THEN <<"--filter=blob:none", "--sparse">> ELSE <<>>)
    \o depth_args(config)
    \o <<clone_url(config), config.local_path>>

\* clone_repo: whether a second git command follows the clone
needs_checkout(config) == Truthy(config.commit) \/ partial_clone(config)

\* clone_repo: the sparse-checkout / checkout command line
checkout_cmd(config) ==
    LET stripped == LStrip(config.subpath, "/")
        subpath == IF config.blob THEN PosixParent(stripped) ELSE stripped
    IN  <<"git", "-C", config.local_path>>
        \o (IF partial_clone(config) THEN <<"sparse-checkout", "set", subpath>> ELSE <<>>)
        \o (IF Truthy(config.commit) THEN <<"checkout", config.commit>> ELSE <<>>)

-----------------------------------------------------------------------------
(* entrypoint.py *)

\* gitingest.config.TMP_BASE_PATH, the process-wide temporary root
TMP_BASE_PATH == <<"tmp", "gitingest">>

\* shutil.rmtree(root, ignore_errors=True): what is left of the tracked directories
rmtree(root, dirs) == {d \in dirs : ~StartsWith(d, PathStr(root) \o "/")}

\* ingest_async: the branch argument has priority over the branch of the URL
selected_branch(branch, q) == IF Truthy(branch) THEN branch ELSE q.branch

\* The names of the runs; Procs are the runs of the behaviour at hand
Runs == {"A", "B"}
Procs == DOMAIN pc

NoProbe == [kind |-> "none", resp |-> "none", warned |-> FALSE]
NotCalled == [called |-> FALSE]

Dir(r) == PathStr(input[r].local_path)

-----------------------------------------------------------------------------
(* output_formatters.py *)

\* The backtick character.  SANY reads a backtick inside a string as the start
\* of a quotation, so the model writes "~" for it; no other text holds a "~".
BQ == "~"
BQ3 == BQ \o BQ \o BQ

\* The tree markers, in ASCII for the box-drawing characters of the source
LastMark == "+-- "
MidMark == "|-- "
LastCont == "    "
MidCont == "|   "

NoNode == [type |-> "NONE"]

\* A FileSystemNode as the tree builder hands it over
FileSystemNode(type, name, content, children, file_count, link) ==
    [type |-> type, name |-> name, content |-> content, children |-> children,
     file_count |-> file_count, link |-> link]

\* FileSystemNode.content_string, the text of a leaf
content_string(n) == n.content

RECURSIVE Replace(_, _, _)
\* str.replace(old, new): the occurrences of old are taken left to right, each
\* search starting after the previous occurrence
Replace(s, old, new) ==
    LET i == Find(s, old)
    IN  IF i = 0 THEN s
        ELSE SubSeq(s, 1, i - 1) \o new \o Replace(SubSeq(s, i + Len(old), Len(s)), old, new)

RECURSIVE Join(_, _)
\* sep.join(parts)
Join(parts, sep) ==
    IF parts = <<>> THEN ""
    ELSE IF Len(parts) = 1 THEN parts[1]
    ELSE parts[1] \o sep \o Join(Tail(parts), sep)

\* str.count(c) for a one-character c
CountOf(s, c) == Cardinality({i \in 1..Len(s) : SubSeq(s, i, i) = c})

\* len(s.splitlines()) for a text whose only line break is "\n"
LineCount(s) ==
    CountOf(s, "\n") + (IF s # "" /\ SubSeq(s, Len(s), Len(s)) # "\n" THEN 1 ELSE 0)

\* the replacement text: three backticks, each behind a backslash
Escaped3 == "\\" \o BQ \o "\\" \o BQ \o "\\" \o BQ

_escape_markdown_backticks(content) == Replace(content, BQ3, Escaped3)

\* _create_summary_prefix naming the branch ahead of the commit
_create_summary_prefix_branch_first(q, single_file) ==
    LET head == IF Truthy(q.user_name)
                THEN <<"Repository: " \o q.user_name \o "/" \o q.repo_name>>
                ELSE <<"Directory: " \o q.slug>>
        ref == IF Truthy(q.branch) /\ q.branch \notin {"main", "master"}
               THEN <<"Branch: " \o q.branch>>
               ELSE IF Truthy(q.commit) THEN <<"Commit: " \o q.commit>> ELSE <<>>
        sub == IF q.subpath # "/" /\ ~single_file THEN <<"Subpath: " \o q.subpath>> ELSE <<>>
    IN  Join(head \o ref \o sub, "\n") \o "\n"

_create_summary_prefix(q, single_file) ==
    LET head == IF Truthy(q.user_name)
                THEN <<"Repository: " \o q.user_name \o "/" \o q.repo_name>>
                ELSE <<"Directory: " \o q.slug>>
        ref == IF Truthy(q.commit) THEN <<"Commit: " \o q.commit>>
               ELSE IF Truthy(q.branch) /\ q.branch \notin {"main", "master"}
                    THEN <<"Branch: " \o q.branch>>
                    ELSE <<>>
        sub == IF q.subpath # "/" /\ ~single_file THEN <<"Subpath: " \o q.subpath>> ELSE <<>>
    IN  Join(head \o ref \o sub, "\n") \o "\n"

RECURSIVE _gather_file_contents(_)
_gather_file_contents(n) ==
    IF n.type # "DIRECTORY" THEN content_string(n)
    ELSE LET parts[i \in 0..Len(n.children)] ==
                 IF i = 0 THEN <<>> ELSE Append(parts[i - 1], _gather_file_contents(n.children[i]))
         IN  Join(parts[Len(n.children)], "\n")

RECURSIVE NameBackfill(_, _)
\* _create_tree_structure as it changes the tree: every node it visits whose
\* name is empty is given the slug as its name
NameBackfill(q, n) ==
    LET kids[i \in 0..Len(n.children)] ==
            IF i = 0 THEN <<>> ELSE Append(kids[i - 1], NameBackfill(q, n.children[i]))
    IN  [n EXCEPT !.name = IF ~Truthy(n.name) THEN q.slug ELSE n.name,
                  !.children = IF n.type = "DIRECTORY" THEN kids[Len(n.children)] ELSE n.children]

RECURSIVE _create_tree_structure_first_is_last(_, _, _, _)
\* _create_tree_structure taking the first child, not the last, for the last sibling
_create_tree_structure_first_is_last(q, n, prefix, is_last) ==
    LET name == IF ~Truthy(n.name) THEN q.slug ELSE n.name
        current_prefix == IF is_last THEN LastMark ELSE MidMark
        display_name == IF n.type = "DIRECTORY" THEN name \o "/"
                        ELSE IF n.type = "SYMLINK" THEN name \o " -> " \o n.link
                        ELSE name
        below == prefix \o (IF is_last THEN LastCont ELSE MidCont)
        rest[i \in 0..Len(n.children)] ==
            IF i = 0 THEN ""
            ELSE rest[i - 1] \o _create_tree_structure_first_is_last(q, n.children[i], below, i = 1)
    IN  prefix \o current_prefix \o display_name \o "\n"
        \o (IF n.type = "DIRECTORY" THEN rest[Len(n.children)] ELSE "")

RECURSIVE _create_tree_structure(_, _, _, _)
\* the string _create_tree_structure returns
_create_tree_structure(q, n, prefix, is_last) ==
    LET name == IF ~Truthy(n.name) THEN q.slug ELSE n.name
        current_prefix == IF is_last THEN LastMark ELSE MidMark
        display_name == IF n.type = "DIRECTORY" THEN name \o "/"
                        ELSE IF n.type = "SYMLINK" THEN name \o " -> " \o n.link
                        ELSE name
        below == prefix \o (IF is_last THEN LastCont ELSE MidCont)
        rest[i \in 0..Len(n.children)] ==
            IF i = 0 THEN ""
            ELSE rest[i - 1] \o _create_tree_structure(q, n.children[i], below, i = Len(n.children))
    IN  prefix \o current_prefix \o display_name \o "\n"
        \o (IF n.type = "DIRECTORY" THEN rest[Len(n.children)] ELSE "")

\* tiktoken's cl100k_base encoder, len(encoding.encode(text)): one token per
\* character stands for the external tokenizer
total_tokens(text) == Len(text)

\* 2^k mod 5
Pow2Mod5(k) == <<1, 2, 4, 3>>[(k % 4) + 1]

\* f"{n / d:.1f}" for n >= d: n / d is the double nearest to the quotient and
\* the format rounds that double to one decimal.  Away from a decimal tie the
\* double lies on the same side of the tie as the quotient.  At a tie
\* (2t+1)/20 the double is exact when 5 divides 2t+1, and the format then
\* rounds half to even; otherwise the double is the quotient rounded at 53
\* bits, below the tie when the remainder of (2t+1) * 2^(50-e) by 5 is 1 or 2
\* and above it when it is 3 or 4, e being the binary exponent of the quotient.
OneDecimal(n, d) ==
    LET t == (10 * n) \div d
        rem == 10 * n - t * d
        odd == 2 * t + 1
        e == CHOOSE k \in 0..30 : 2^k <= n \div d /\ n \div d < 2^(k + 1)
        r == ((odd % 5) * Pow2Mod5(50 - e)) % 5
        tenths == IF 2 * rem < d THEN t
                  ELSE IF 2 * rem > d THEN t + 1
                  ELSE IF odd % 5 = 0 THEN (IF t % 2 = 0 THEN t ELSE t + 1)
                  ELSE IF r \in {1, 2} THEN t ELSE t + 1
    IN  ToString(tenths \div 10) \o "." \o ToString(tenths % 10)

\* format_count sending exactly one million to the k range
format_count_million_as_k(n) ==
    IF n > 1000000 THEN OneDecimal(n, 1000000) \o "M"
    ELSE IF n >= 1000 THEN OneDecimal(n, 1000) \o "k"
    ELSE ToString(n)

\* _format_token_count past the tokenizer: the rendering of a token count
format_count(n) ==
    IF n >= 1000000 THEN OneDecimal(n, 1000000) \o "M"
    ELSE IF n >= 1000 THEN OneDecimal(n, 1000) \o "k"
    ELSE ToString(n)

\* What the tokenizer does with a text: it counts its tokens (one per
\* character in "len", a given number in "count"), or it raises
LenEncoder == [kind |-> "len"]
CountEncoder(n) == [kind |-> "count", n |-> n]
RaisingEncoder(e) == [kind |-> "raises", error |-> e]

\* _format_token_count with the tokenizer enc: the string returned (None
\* after a caught error), or the exception that leaves the function
_format_token_count_enc(text, enc) ==
    IF enc.kind = "raises"
    THEN IF enc.error \in {"ValueError", "UnicodeEncodeError"}
         THEN [raised |-> NoError, value |-> None]
         ELSE [raised |-> enc.error, value |-> None]
    ELSE [raised |-> NoError,
          value |-> format_count(IF enc.kind = "len" THEN total_tokens(text) ELSE enc.n)]

_format_token_count(text) == _format_token_count_enc(text, LenEncoder).value

JsonEscapeChar(c) ==
    IF c = "\"" THEN "\\\"" ELSE IF c = "\\" THEN "\\\\" ELSE IF c = "\n" THEN "\\n" ELSE c

\* json's string escaping of the characters the texts hold
JsonEscape(s) == MapChars(JsonEscapeChar, s)

\* json.dumps(output, indent=2) of a dict given as its (key, value) items in order
json_dumps(items) ==
    LET lines[i \in 0..Len(items)] ==
            IF i = 0 THEN <<>>
            ELSE Append(lines[i - 1],
                        "  \"" \o JsonEscape(items[i][1]) \o "\": \"" \o JsonEscape(items[i][2]) \o "\"")
    IN  IF items = <<>> THEN "{}" ELSE "{\n" \o Join(lines[Len(items)], ",\n") \o "\n}"

\* format_node: the summary, computed before the tree is rendered
format_summary(n, q) ==
    IF ~q.include_summary THEN ""
    ELSE _create_summary_prefix(q, n.type = "FILE")
         \o (IF n.type = "DIRECTORY" THEN "Files analyzed: " \o ToString(n.file_count) \o "\n"
             ELSE IF n.type = "FILE"
                  THEN "File: " \o n.name \o "\n" \o "Lines: " \o ToString(LineCount(n.content)) \o "\n"
                  ELSE "")

format_tree(n, q) ==
    IF q.include_structure THEN "Directory structure:\n" \o _create_tree_structure(q, n, "", TRUE) ELSE ""

format_content(n, q) == IF q.include_content THEN _gather_file_contents(n) ELSE ""

\* format_node, markdown branch: the bodies put between the fences, in order
markdown_bodies(q, summary, tree, content) ==
    (IF q.include_summary /\ summary # "" THEN <<_escape_markdown_backticks(summary)>> ELSE <<>>)
    \o (IF q.include_structure /\ tree # "" THEN <<_escape_markdown_backticks(tree)>> ELSE <<>>)
    \o (IF q.include_content /\ content # "" THEN <<_escape_markdown_backticks(content)>> ELSE <<>>)

Fence(title, body) == "## " \o title \o "\n\n" \o BQ3 \o "\n" \o body \o BQ3 \o "\n\n"

\* format_node, markdown branch: the document
markdown_document(q, summary, tree, content) ==
    (IF q.include_summary /\ summary # ""
     THEN Fence("Summary", _escape_markdown_backticks(summary)) ELSE "")
    \o (IF q.include_structure /\ tree # ""
        THEN Fence("Directory Structure", _escape_markdown_backticks(tree)) ELSE "")
    \o (IF q.include_content /\ content # ""
        THEN Fence("File Contents", _escape_markdown_backticks(content)) ELSE "")

\* json_document leaving out the sections whose text is empty
json_document_nonempty(q, summary, tree, content) ==
    json_dumps((IF q.include_summary /\ summary # "" THEN <<<<"summary", summary>>>> ELSE <<>>)
               \o (IF q.include_structure /\ tree # "" THEN <<<<"structure", tree>>>> ELSE <<>>)
               \o (IF q.include_content /\ content # "" THEN <<<<"content", content>>>> ELSE <<>>))

\* format_node, json branch: the document
json_document(q, summary, tree, content) ==
    json_dumps((IF q.include_summary THEN <<<<"summary", summary>>>> ELSE <<>>)
               \o (IF q.include_structure THEN <<<<"structure", tree>>>> ELSE <<>>)
               \o (IF q.include_content THEN <<<<"content", content>>>> ELSE <<>>))

\* format_node, txt branch: the summary with the token estimate
txt_summary(q, summary, tree, content) ==
    LET text_for_tokens == (IF q.include_structure THEN tree ELSE "")
                           \o (IF q.include_content THEN content ELSE "")
        token_estimate == _format_token_count(text_for_tokens)
    IN  IF token_estimate # "" /\ q.include_summary
        THEN summary \o "\nEstimated tokens: " \o token_estimate
        ELSE summary

\* format_node: the returned triple, the tree as the call leaves it, and the
\* bodies a markdown call fenced
format_node(n, q) ==
    LET summary == format_summary(n, q)
        tree == format_tree(n, q)
        after == IF q.include_structure THEN NameBackfill(q, n) ELSE n
        content == format_content(after, q)
    IN  IF q.output_format = "json"
        THEN [triple |-> <<json_document(q, summary, tree, content), "", "">>,
              node |-> after, fenced |-> <<>>]
        ELSE IF q.output_format = "markdown"
        THEN [triple |-> <<markdown_document(q, summary, tree, content), "", "">>,
              node |-> after, fenced |-> markdown_bodies(q, summary, tree, content)]
        ELSE IF q.output_format = "txt"
        THEN [triple |-> <<txt_summary(q, summary, tree, content), tree, content>>,
              node |-> after, fenced |-> <<>>]
        ELSE [triple |-> <<summary, tree, content>>, node |-> after, fenced |-> <<>>]

\* gitingest.ingestion.ingest_query: the tree of the source is built and handed
\* to format_node, whose triple is returned
ingest_query(tree, q) == format_node(tree, q).triple

\* entrypoint._write_output_file: the text written to the output path
_write_output_file(summary, tree, content, output_format) ==
    IF output_format = "json"
    THEN json_dumps((IF summary # "" THEN <<<<"summary", summary>>>> ELSE <<>>)
                    \o (IF tree # "" THEN <<<<"structure", tree>>>> ELSE <<>>)
                    \o (IF content # "" THEN <<<<"content", content>>>> ELSE <<>>))
    ELSE IF output_format = "markdown"
    THEN (IF summary # "" THEN Fence("Summary", summary) ELSE "")
         \o (IF tree # "" THEN Fence("Directory Structure", tree) ELSE "")
         \o (IF content # "" THEN Fence("File Contents", content) ELSE "")
    ELSE (IF tree # "" THEN tree ELSE "") \o (IF content # "" THEN "\n" \o content ELSE "")

\* format_node, txt branch, with the tokenizer enc
txt_summary_enc(q, summary, tree, content, enc) ==
    LET text_for_tokens == (IF q.include_structure THEN tree ELSE "")
                           \o (IF q.include_content THEN content ELSE "")
        token_estimate == _format_token_count_enc(text_for_tokens, enc)
    IN  IF token_estimate.raised # NoError
        THEN [raised |-> token_estimate.raised, value |-> summary]
        ELSE [raised |-> NoError,
              value |-> IF Truthy(token_estimate.value) /\ q.include_summary
                        THEN summary \o "\nEstimated tokens: " \o token_estimate.value
                        ELSE summary]

\* format_node with the tokenizer enc: the exception that leaves it, or its triple
format_node_enc(n, q, enc) ==
    LET out == format_node(n, q)
        txt == txt_summary_enc(q, format_summary(n, q), out.triple[2], out.triple[3], enc)
    IN  IF q.output_format # "txt" THEN [raised |-> NoError, triple |-> out.triple]
        ELSE [raised |-> txt.raised, triple |-> <<txt.value, out.triple[2], out.triple[3]>>]

-----------------------------------------------------------------------------
(* server/query_processor.py *)

\* no web request is being served
NoRequest == [pc |-> "none"]

\* the suffix of s from position i
From(s, i) == SubSeq(s, i, Len(s))

\* the least member of a non-empty set of positions
Least(hits) == CHOOSE i \in hits : \A j \in hits : i <= j

SamlHead == "The '"
SamlTail == "' organization has enabled or enforced SAML SSO"

\* re.search(saml_pattern, s).group(1), or None without a match: the text
\* between "The '" and the next quote, when it is not empty and the rest of
\* the phrase follows that quote
saml_search(s) ==
    LET Org(i) == LET rest == From(s, i + Len(SamlHead))
                  IN  SubSeq(rest, 1, Find(rest, "'") - 1)
        hits == {i \in 1..Len(s) :
                    /\ StartsWith(From(s, i), SamlHead)
                    /\ LET rest == From(s, i + Len(SamlHead))
                           j == Find(rest, "'")
                       IN  j > 1 /\ StartsWith(From(rest, j), SamlTail)}
    IN  IF hits = {} THEN None ELSE Org(Least(hits))

UrlHead == "https://github.com/enterprises/"

\* the characters of s before its first white space
UpToSpace(s) ==
    LET ws == {i \in 1..Len(s) : SubSeq(s, i, i) \in {" ", "\n", "\t", "\r"}}
    IN  IF ws = {} THEN s ELSE SubSeq(s, 1, Least(ws) - 1)

\* re.search(url_pattern, s).group(1), or None without a match: after "visit ",
\* the enterprise URL with a name free of "/", then "/sso?" and at least one
\* character that is not white space, up to the next white space
url_search(s) ==
    LET Parts(i) == LET rest == From(s, i + Len("visit " \o UrlHead))
                        j == Find(rest, "/")
                    IN  [name |-> SubSeq(rest, 1, j - 1),
                         after |-> From(rest, j),
                         args |-> UpToSpace(From(rest, j + Len("/sso?")))]
        hits == {i \in 1..Len(s) :
                    /\ StartsWith(From(s, i), "visit " \o UrlHead)
                    /\ Parts(i).name # ""
                    /\ StartsWith(Parts(i).after, "/sso?")
                    /\ Parts(i).args # ""}
    IN  IF hits = {} THEN None
        ELSE LET m == Parts(Least(hits)) IN UrlHead \o m.name \o "/sso?" \o m.args

_detect_saml_sso_error(error_message) ==
    LET org == saml_search(error_message)
        url == url_search(error_message)
    IN  IF org # None /\ url # None THEN <<TRUE, org, url>> ELSE <<FALSE, "", "">>

\* _create_saml_sso_error_message: the head of the message, down to the link;
\* the text after it holds neither the name nor the URL again
_create_saml_sso_error_message(org_name, sso_url) ==
    "SAML SSO Authentication Required\n\n"
    \o "The '" \o org_name \o "' organization requires SAML Single Sign-On authentication.\n\n"
    \o "<strong>Steps to access this repository:</strong>\n\n"
    \o "1. <a href=\"" \o sso_url \o "\" target=\"_blank\" rel=\"noopener noreferrer\" "
    \o "class=\"text-blue-600 hover:text-blue-800 underline\">Click here to authenticate with "
    \o org_name \o " SSO</a>\n"

\* process_query, the except block: context["error_message"] for str(exc);
\* each message is given by its first sentence
error_message_for(error_str, github_token) ==
    LET saml == _detect_saml_sso_error(error_str)
        low == Lower(error_str)
    IN  IF saml[1] THEN _create_saml_sso_error_message(saml[2], saml[3])
        ELSE IF Contains(error_str, "405")
        THEN "Repository not found. Please check the URL and ensure you have access. "
        ELSE IF Contains(error_str, "401") \/ Contains(error_str, "403")
        THEN "Authentication failed. Please check your GitHub Personal Access Token "
        ELSE IF Contains(low, "write access to repository not granted")
        THEN "Access denied to repository. This error occurs because:\n\n"
        ELSE IF Contains(error_str, "Repository not found or access denied")
        THEN (IF Truthy(github_token)
              THEN "Repository not found or access denied. This could mean:\n"
              ELSE "Repository not found or access denied. This repository may be private. ")
        ELSE IF Contains(low, "authentication failed") \/ Contains(low, "invalid credentials")
        THEN "Git authentication failed. Please verify:\n"
        ELSE "Error: " \o error_str

\* _print_success: summary.index("Estimated tokens:") raises ValueError when
\* the summary has no such text
_print_success(summary) ==
    IF Contains(summary, "Estimated tokens:") THEN NoError ELSE "ValueError: substring not found"

-----------------------------------------------------------------------------
(* The inputs of a run *)

Token == "ghp_s3cret"

\* the tree the builder hands over for the source of a run: a directory of two files
DefaultTree ==
    FileSystemNode("DIRECTORY", "", "", <<FileSystemNode("FILE", "a.py", "x = 1\n", <<>>, 0, ""),
                                         FileSystemNode("FILE", "b.py", "y", <<>>, 0, "")>>, 2, "")

Urls == {None, "",
         "https://github.com/o/r",
         "https://github.com.example.org/o/r",
         "https://notgithub.com/o/r",
         "https://gitlab.com/o/r"}

Formats == {"txt", "json", "markdown", "text"}

\* local_path of run r: the clone directory TMP_BASE_PATH/<id>/<slug> of a remote
\* source, the directory itself for a local one
LocalPath(r, url) ==
    IF Truthy(url) THEN TMP_BASE_PATH \o <<"id-" \o r, "o-r">> ELSE <<"home", "u", "proj">>

Inputs(r, urls, commits, branches, args, subpaths, types, tokens, formats) ==
    {[url |-> u, local_path |-> LocalPath(r, u), commit |-> c, branch |-> b,
      branch_arg |-> a, subpath |-> s, type |-> t, pat_token |-> k,
      output_format |-> f, keep_temp |-> kt,
      user_name |-> IF Truthy(u) THEN "o" ELSE None,
      repo_name |-> IF Truthy(u) THEN "r" ELSE None,
      slug |-> IF Truthy(u) THEN "o/r" ELSE "proj",
      include_summary |-> TRUE, include_structure |-> TRUE, include_content |-> TRUE,
      output |-> None, tree |-> DefaultTree] :
        u \in urls, c \in commits, b \in branches, a \in args, s \in subpaths,
        t \in types, k \in tokens, f \in formats, kt \in BOOLEAN}

RichInputs(r) ==
    Inputs(r, Urls, {None, "abc123"}, {None, "main", "Main"}, {None, "dev"},
           {"/", "/src", "/src/a.py"}, {None, "blob"}, {None, Token}, Formats)

SmallInputs(r) ==
    Inputs(r, {None, "https://github.com/o/r"}, {None, "abc123"}, {None}, {None},
           {"/"}, {None}, {None, Token}, {"txt"})

RunsInit(runs) ==
    /\ pc = [r \in runs |-> "start"]
    /\ query = [r \in runs |-> NoQuery]
    /\ clone_config = [r \in runs |-> NoConfig]
    /\ probe = [r \in runs |-> NoProbe]
    /\ cmds = [r \in runs |-> <<>>]
    /\ repo_cloned = [r \in runs |-> FALSE]
    /\ result = [r \in runs |-> "none"]
    /\ direct = [r \in runs |-> NotCalled]
    /\ disk = {}
    /\ returned = [r \in runs |-> <<>>]
    /\ written = [r \in runs |-> None]
    /\ web = NoRequest

\* no tree is being formatted
FormatIdle ==
    /\ node = NoNode
    /\ fmt_query = NoQuery
    /\ ret = <<>>
    /\ fenced = <<>>

\* One digest run, over the full range of sources and options
Init ==
    /\ input \in [{"A"} -> RichInputs("A")]
    /\ RunsInit({"A"})
    /\ FormatIdle

\* the trees of the runs that write an output file
WriteTrees ==
    {DefaultTree,
     FileSystemNode("DIRECTORY", "", "", <<>>, 0, ""),
     FileSystemNode("FILE", "f.md", "a" \o BQ3 \o "b\n", <<>>, 0, ""),
     FileSystemNode("FILE", "e", "", <<>>, 0, "")}

\* the runs that may write an output file: any format, any flags
WriteInputs(r) ==
    {[i EXCEPT !.output = o, !.tree = t, !.include_summary = s,
               !.include_structure = st, !.include_content = c] :
        i \in Inputs(r, {None, "https://github.com/o/r"}, {None, "abc123"}, {None}, {None},
                     {"/"}, {None}, {None, Token}, Formats),
        o \in {None, "digest.out"}, t \in WriteTrees,
        s \in BOOLEAN, st \in BOOLEAN, c \in BOOLEAN}

\* One digest run that may write its output file
InitWrite ==
    /\ input \in [{"A"} -> WriteInputs("A")]
    /\ RunsInit({"A"})
    /\ FormatIdle

\* One digest run of a local or remote source, with and without a commit and a token
InitTimeout ==
    /\ input \in [{"A"} -> SmallInputs("A")]
    /\ RunsInit({"A"})
    /\ FormatIdle

\* the repositories of the runs that probe with a token: names that end in
\* characters of ".git" and names that do not, with and without the suffix
ProbeRepos ==
    {[url |-> "https://github.com/" \o o \o "/" \o n \o sfx, owner |-> o, repo |-> n] :
        o \in {"o", "digit"}, n \in {"r", "widget", "api", "my.lib", "git", "tool.gi"},
        sfx \in {"", ".git"}}

\* the runs on those repositories, and on a local source
ProbeInputs(r) ==
    {[i EXCEPT !.url = p.url, !.user_name = p.owner, !.repo_name = p.repo,
               !.slug = p.owner \o "/" \o p.repo] :
        i \in Inputs(r, {"https://github.com/o/r"}, {None, "abc123"}, {None}, {None},
                     {"/"}, {None}, {None, Token}, {"txt"}),
        p \in ProbeRepos}
    \cup Inputs(r, {None}, {None}, {None}, {None}, {"/"}, {None}, {None}, {"txt"})

\* One digest run of a repository whose name the authenticated probe is sent
InitProbe ==
    /\ input \in [{"A"} -> ProbeInputs("A")]
    /\ RunsInit({"A"})
    /\ FormatIdle

\* Two concurrent digest runs, each with its own clone directory
InitConc ==
    /\ input \in {f \in [{"A", "B"} -> SmallInputs("A") \cup SmallInputs("B")] :
                    \A r \in {"A", "B"} : f[r] \in SmallInputs(r)}
    /\ RunsInit({"A", "B"})
    /\ FormatIdle


\* The calls of format_node made on one tree
MaxCalls == 2

\* The longest text of a single-file root
MaxLen == 5

RECURSIVE Texts(_)
\* every text of at most n characters over backticks and letters
Texts(n) == IF n = 0 THEN {""} ELSE Texts(n - 1) \cup {s \o c : s \in Texts(n - 1), c \in {BQ, "a"}}

\* FileSystemNode.file_count of a directory with these children
file_count_of(kids) ==
    LET sum[i \in 0..Len(kids)] ==
            IF i = 0 THEN 0
            ELSE sum[i - 1] + (IF kids[i].type = "FILE" THEN 1
                               ELSE IF kids[i].type = "DIRECTORY" THEN kids[i].file_count ELSE 0)
    IN  sum[Len(kids)]

Directory(name, kids) == FileSystemNode("DIRECTORY", name, "", kids, file_count_of(kids), "")

\* no child, one child, or two children drawn from set
ChildLists(set) == {<<>>} \cup {<<a>> : a \in set} \cup {<<a, b>> : a \in set, b \in set}

\* texts that already hold the escaped form of three backticks
EscapedTexts == {Escaped3, "a" \o Escaped3 \o BQ3}

RootFiles ==
    {FileSystemNode("FILE", nm, c, <<>>, 0, "") : nm \in {"", "f"}, c \in Texts(MaxLen) \cup EscapedTexts}

Leaves ==
    {FileSystemNode("FILE", nm, c, <<>>, 0, "") : nm \in {"", "a"}, c \in {"", "x\ny", BQ3 \o BQ \o BQ}}
    \cup {FileSystemNode("SYMLINK", "l", "", <<>>, 0, "t")}

SubDirs ==
    {Directory("d", kids) :
        kids \in ChildLists({FileSystemNode("FILE", "b", c, <<>>, 0, "") : c \in {"", "z"}})}

RootDirs == {Directory(nm, kids) : nm \in {"", "root"}, kids \in ChildLists(Leaves \cup SubDirs)}

FormatNodes == RootFiles \cup RootDirs

FormatFields ==
    {[url |-> None, local_path |-> <<"home", "u", "proj">>, commit |-> None, branch |-> b,
      subpath |-> "/", type |-> None, pat_token |-> None, output_format |-> f,
      user_name |-> None, repo_name |-> None, slug |-> "proj",
      include_summary |-> s, include_structure |-> t, include_content |-> c] :
        b \in {None, "dev"}, f \in Formats, s \in BOOLEAN, t \in BOOLEAN, c \in BOOLEAN}

\* the queries that pass construction
FormatQueries == {IngestionQuery(f) : f \in FormatFields} \ {NoQuery}

\* format_node applied to a tree the builder produced, up to MaxCalls times
InitFormat ==
    /\ input = <<>>
    /\ RunsInit({})
    /\ node \in FormatNodes
    /\ fmt_query \in FormatQueries
    /\ ret = <<>>
    /\ fenced = <<>>

\* the roots whose summaries differ: files of zero to three lines, directories
\* of zero and of two files, a symlink
SummaryNodes ==
    {FileSystemNode("FILE", nm, c, <<>>, 0, "") : nm \in {"", "f"}, c \in {"", "a", "a\nb", "a\nb\n", "\n\n\n"}}
    \cup {DefaultTree, Directory("root", <<>>), FileSystemNode("SYMLINK", "l", "", <<>>, 0, "t")}

SummaryFields ==
    {[url |-> u, local_path |-> <<"tmp", "gitingest", "id", "o-r">>, commit |-> c, branch |-> b,
      subpath |-> p, type |-> None, pat_token |-> None, output_format |-> f,
      user_name |-> IF Truthy(u) THEN "o" ELSE None,
      repo_name |-> IF Truthy(u) THEN "r" ELSE None,
      slug |-> IF Truthy(u) THEN "o/r" ELSE "proj",
      include_summary |-> s, include_structure |-> t, include_content |-> k] :
        u \in {None, "https://github.com/o/r"}, c \in {None, "abc123"},
        b \in {None, "main", "master", "Main", "dev"}, p \in {"/", "/src"},
        f \in Formats, s \in BOOLEAN, t \in BOOLEAN, k \in BOOLEAN}

SummaryQueries == {IngestionQuery(f) : f \in SummaryFields} \ {NoQuery}

\* format_node applied to the roots and queries that shape the summary
InitSummary ==
    /\ input = <<>>
    /\ RunsInit({})
    /\ node \in SummaryNodes
    /\ fmt_query \in SummaryQueries
    /\ ret = <<>>
    /\ fenced = <<>>

\* the token counts the tokenizer may report: the thresholds, their
\* neighbours, and the counts that sit on a rounding boundary
TokenCounts ==
    {0, 1, 999, 1000, 1001, 1049, 1050, 1051, 1149, 1150, 1151, 1250, 9999, 99949, 99950,
     999949, 999950, 999999, 1000000, 1000001, 1049999, 1050000, 1250000, 99950000, 123456789}

\* the failures of the tokenizer: the two _format_token_count catches, and
\* two it does not (the encoding file cannot be fetched or is damaged)
TokenizerErrors == {"ValueError", "UnicodeEncodeError", "ConnectionError", "KeyError"}

Encoders ==
    {LenEncoder} \cup {CountEncoder(n) : n \in TokenCounts}
    \cup {RaisingEncoder(e) : e \in TokenizerErrors}

SsoPhrase(org) == SamlHead \o org \o SamlTail \o "."

EnterpriseUrl == UrlHead \o "acme-corp/sso?authorization_request=A1B2"
OrgUrl == "https://github.com/orgs/acme/sso?authorization_request=A1B2"

\* The error texts of a failed request, each with the organization name and
\* the SSO URL it holds (None when it holds none): git's output about SAML
\* SSO with and without its parts, alone or behind the HTTP status line
SsoErrors ==
    {[text |-> pre \o ph.text \o u.text \o post, org |-> ph.org, sso_url |-> u.url] :
        pre \in {"", "fatal: unable to access: The requested URL returned error: 403\nremote: "},
        ph \in {[text |-> "", org |-> None],
                [text |-> "The organization has enabled or enforced SAML SSO.", org |-> None],
                [text |-> SsoPhrase("acme"), org |-> "acme"],
                [text |-> SsoPhrase("my org"), org |-> "my org"]},
        u \in {[text |-> "", url |-> None],
               [text |-> " To access this repository, visit " \o EnterpriseUrl \o " and try again.",
                url |-> EnterpriseUrl],
               [text |-> " To access this repository, visit " \o OrgUrl \o " and try again.",
                url |-> OrgUrl],
               [text |-> "\nremote: Authorize at " \o EnterpriseUrl, url |-> EnterpriseUrl]},
        post \in {"", " (HTTP 405)"}}

\* the other failures of parse_query and clone_repo
OtherErrors ==
    {[text |-> t, org |-> None, sso_url |-> None] :
        t \in {"The 'url' parameter is required.",
               "Repository not found or access denied",
               "remote: Write access to repository not granted.",
               "fatal: Authentication failed for 'https://github.com/o/r'",
               "remote: Invalid credentials",
               "HTTP status 401",
               "git is not installed"}}

WebErrors == (SsoErrors \ {[text |-> "", org |-> None, sso_url |-> None]}) \cup OtherErrors

\* the query parse_query returns for a web request: a GitHub URL, the txt
\* format and every section
WebQuery(github_token) ==
    IngestionQuery([url |-> "https://github.com/o/r", local_path |-> <<"tmp", "gitingest", "id", "o-r">>,
                    commit |-> None, branch |-> None, subpath |-> "/", type |-> None,
                    pat_token |-> github_token, output_format |-> "txt",
                    user_name |-> "o", repo_name |-> "r", slug |-> "o/r",
                    include_summary |-> TRUE, include_structure |-> TRUE, include_content |-> TRUE])

\* the requests: those whose parsing or cloning fails with an error text, and
\* those that reach ingest_query with a tokenizer
WebRequests ==
    {[pc |-> "start", github_token |-> k, fails |-> e, enc |-> LenEncoder, tree |-> DefaultTree,
      exc |-> NoError, error_message |-> None, summary |-> None, digest |-> None,
      response |-> "none"] : k \in {None, Token}, e \in WebErrors}
    \cup
    {[pc |-> "start", github_token |-> k, fails |-> [text |-> NoError, org |-> None, sso_url |-> None],
      enc |-> c, tree |-> t,
      exc |-> NoError, error_message |-> None, summary |-> None, digest |-> None,
      response |-> "none"] : k \in {None, Token}, c \in Encoders, t \in WriteTrees}

\* One web request served by process_query
InitWeb ==
    /\ input = <<>>
    /\ pc = <<>> /\ query = <<>> /\ clone_config = <<>> /\ probe = <<>> /\ cmds = <<>>
    /\ repo_cloned = <<>> /\ result = <<>> /\ direct = <<>> /\ disk = {}
    /\ returned = <<>> /\ written = <<>>
    /\ FormatIdle
    /\ web \in WebRequests

-----------------------------------------------------------------------------
(* ingest_async, step by step; the steps of clone_repo are those between its awaits *)

Raise(r, err) ==
    /\ result' = [result EXCEPT ![r] = err]
    /\ pc' = [pc EXCEPT ![r] = "finally"]

\* await parse_query(...): the IngestionQuery is constructed and validated
ParseQuery(r) ==
    /\ r \in Procs /\ pc[r] = "start"
    /\ LET q == IngestionQuery(input[r])
       IN  /\ query' = [query EXCEPT ![r] = q]
           /\ IF q.ok
              THEN pc' = [pc EXCEPT ![r] = "parsed"] /\ UNCHANGED result
              ELSE Raise(r, "ValidationError")
    /\ UNCHANGED <<input, clone_config, probe, cmds, repo_cloned, direct, disk, fmtVars, outVars, web>>

\* if query.url: set the branch, plan the clone and enter clone_repo
StartClone(r) ==
    /\ r \in Procs /\ pc[r] = "parsed"
    /\ Truthy(query[r].url)
    /\ LET q == [query[r] EXCEPT !.branch = selected_branch(input[r].branch_arg, query[r])]
       IN  /\ query' = [query EXCEPT ![r] = q]
           /\ clone_config' = [clone_config EXCEPT ![r] = extract_clone_config(q).value]
    /\ pc' = [pc EXCEPT ![r] = "makedirs"]
    /\ UNCHANGED <<input, probe, cmds, repo_cloned, result, direct, disk, fmtVars, outVars, web>>

\* a local source: no clone, straight to ingest_query
SkipClone(r) ==
    /\ r \in Procs /\ pc[r] = "parsed"
    /\ ~Truthy(query[r].url)
    /\ pc' = [pc EXCEPT ![r] = "ingest"]
    /\ UNCHANGED <<input, query, clone_config, probe, cmds, repo_cloned, result, direct, disk, fmtVars, outVars, web>>

\* clone_repo: os.makedirs(parent_dir, exist_ok=True)
Makedirs(r) ==
    /\ r \in Procs /\ pc[r] = "makedirs"
    /\ \/ pc' = [pc EXCEPT ![r] = "probe"] /\ UNCHANGED result
       \/ Raise(r, "OSError: Failed to create parent directory")
    /\ UNCHANGED <<input, query, clone_config, probe, cmds, repo_cloned, direct, disk, fmtVars, outVars, web>>

\* clone_repo with a token: await check_repo_exists_authenticated(...)
ProbeAuthenticated(r) ==
    /\ r \in Procs /\ pc[r] = "probe"
    /\ Truthy(clone_config[r].pat_token)
    /\ \E resp \in AuthResponses :
        LET sent == owner_repo(clone_config[r].url)
            out == probe_authenticated(resp)
        IN  IF ~sent.ok
            THEN /\ Raise(r, "ValueError: Invalid repository URL format for authenticated check")
                 /\ UNCHANGED probe
            ELSE /\ probe' = [probe EXCEPT ![r] = [kind |-> "auth", resp |-> resp, warned |-> out.warned,
                                                   owner |-> sent.owner, repo |-> sent.repo]]
                 /\ IF out.error # NoError
                    THEN Raise(r, out.error)
                    ELSE pc' = [pc EXCEPT ![r] = "ensure_git"] /\ UNCHANGED result
    /\ UNCHANGED <<input, query, clone_config, cmds, repo_cloned, direct, disk, fmtVars, outVars, web>>

\* clone_repo without a token: await check_repo_exists(url)
ProbeUnauthenticated(r) ==
    /\ r \in Procs /\ pc[r] = "probe"
    /\ ~Truthy(clone_config[r].pat_token)
    /\ \E exists \in BOOLEAN :
        LET err == probe_unauthenticated(exists)
        IN  /\ probe' = [probe EXCEPT ![r] = [kind |-> "anon", resp |-> IF exists THEN "True" ELSE "False",
                                               warned |-> FALSE]]
            /\ IF err # NoError
               THEN Raise(r, err)
               ELSE pc' = [pc EXCEPT ![r] = "ensure_git"] /\ UNCHANGED result
    /\ UNCHANGED <<input, query, clone_config, cmds, repo_cloned, direct, disk, fmtVars, outVars, web>>

\* clone_repo: await ensure_git_installed()
EnsureGit(r) ==
    /\ r \in Procs /\ pc[r] = "ensure_git"
    /\ \/ pc' = [pc EXCEPT ![r] = "git_clone"] /\ UNCHANGED result
       \/ Raise(r, "RuntimeError: Git is not installed")
    /\ UNCHANGED <<input, query, clone_config, probe, cmds, repo_cloned, direct, disk, fmtVars, outVars, web>>

\* clone_repo: run_command(*clone_cmd) starts git clone, which creates the target directory
GitCloneStart(r) ==
    /\ r \in Procs /\ pc[r] = "git_clone"
    /\ cmds' = [cmds EXCEPT ![r] = Append(@, clone_cmd(clone_config[r]))]
    /\ disk' = disk \cup {clone_config[r].local_path}
    /\ pc' = [pc EXCEPT ![r] = "clone_wait"]
    /\ UNCHANGED <<input, query, clone_config, probe, repo_cloned, result, direct, fmtVars, outVars, web>>

\* clone_repo returns to ingest_async, which sets repo_cloned = True
CloneDone(r) ==
    /\ repo_cloned' = [repo_cloned EXCEPT ![r] = TRUE]
    /\ pc' = [pc EXCEPT ![r] = "ingest"]
    /\ UNCHANGED result

\* git clone exits and clone_repo goes on to the second command after a failure too
GitCloneExit_going_on(r) ==
    /\ r \in Procs /\ pc[r] = "clone_wait"
    /\ \/ /\ disk' = disk \cup {clone_config[r].local_path}
          /\ IF needs_checkout(clone_config[r])
             THEN pc' = [pc EXCEPT ![r] = "checkout"] /\ UNCHANGED <<repo_cloned, result>>
             ELSE CloneDone(r)
       \/ /\ result' = [result EXCEPT ![r] = "RuntimeError: git clone failed"]
          /\ pc' = [pc EXCEPT ![r] = "checkout"]
          /\ UNCHANGED <<repo_cloned, disk>>
    /\ UNCHANGED <<input, query, clone_config, probe, cmds, direct, fmtVars, outVars, web>>

\* clone_repo: git clone exits
GitCloneExit(r) ==
    /\ r \in Procs /\ pc[r] = "clone_wait"
    /\ \/ /\ disk' = disk \cup {clone_config[r].local_path}
          /\ IF needs_checkout(clone_config[r])
             THEN pc' = [pc EXCEPT ![r] = "checkout"] /\ UNCHANGED <<repo_cloned, result>>
             ELSE CloneDone(r)
       \/ /\ Raise(r, "RuntimeError: git clone failed")
          /\ UNCHANGED <<repo_cloned, disk>>
       \/ /\ Raise(r, "RuntimeError: git clone failed")
          /\ disk' = disk \ {clone_config[r].local_path}
          /\ UNCHANGED repo_cloned
    /\ UNCHANGED <<input, query, clone_config, probe, cmds, direct, fmtVars, outVars, web>>

\* clone_repo: run_command(*checkout_cmd) starts the second git command
CheckoutStart(r) ==
    /\ r \in Procs /\ pc[r] = "checkout"
    /\ cmds' = [cmds EXCEPT ![r] = Append(@, checkout_cmd(clone_config[r]))]
    /\ pc' = [pc EXCEPT ![r] = "checkout_wait"]
    /\ UNCHANGED <<input, query, clone_config, probe, repo_cloned, result, direct, disk, fmtVars, outVars, web>>

\* clone_repo: the second git command exits
CheckoutExit(r) ==
    /\ r \in Procs /\ pc[r] = "checkout_wait"
    /\ \/ CloneDone(r)
       \/ Raise(r, "RuntimeError: git checkout failed") /\ UNCHANGED repo_cloned
    /\ UNCHANGED <<input, query, clone_config, probe, cmds, direct, disk, fmtVars, outVars, web>>

\* the seconds @async_timeout gives clone_repo
TIMEOUT == 60

\* the positions at which clone_repo is suspended in an await: the existence
\* probe, git --version, git clone, git checkout
AwaitPcs_after_the_probe == {"ensure_git", "clone_wait", "checkout_wait"}

AwaitPcs == {"probe", "ensure_git", "clone_wait", "checkout_wait"}

\* @async_timeout(TIMEOUT): the time is up while clone_repo is suspended; the
\* await is cancelled and the wrapper raises the timeout error
Timeout(r) ==
    /\ r \in Procs /\ pc[r] \in AwaitPcs
    /\ Raise(r, "AsyncTimeoutError: Operation timed out after " \o ToString(TIMEOUT) \o " seconds")
    /\ UNCHANGED <<input, query, clone_config, probe, cmds, repo_cloned, direct, disk, fmtVars, outVars, web>>

\* summary, tree, content = ingest_query(query); the output file is written
\* when an output path was given; then the return
IngestQuery(r) ==
    /\ r \in Procs /\ pc[r] = "ingest"
    /\ \/ /\ ~Truthy(query[r].url) \/ Dir(r) \in disk
          /\ LET out == ingest_query(input[r].tree, query[r])
             IN  \/ /\ returned' = [returned EXCEPT ![r] = out]
                    /\ written' = IF input[r].output # None
                                  THEN [written EXCEPT ![r] =
                                            _write_output_file(out[1], out[2], out[3],
                                                               query[r].output_format)]
                                  ELSE written
                    /\ Raise(r, "digest")
                 \/ /\ input[r].output # None
                    /\ Raise(r, "OSError: the output file cannot be opened")
                    /\ UNCHANGED outVars
       \/ Raise(r, "Error: ingest_query failed") /\ UNCHANGED outVars
    /\ UNCHANGED <<input, query, clone_config, probe, cmds, repo_cloned, direct, disk, fmtVars, web>>

\* the finally block of ingest_async
Finally(r) ==
    /\ r \in Procs /\ pc[r] = "finally"
    /\ disk' = IF repo_cloned[r] /\ ~input[r].keep_temp THEN rmtree(TMP_BASE_PATH, disk) ELSE disk
    /\ pc' = [pc EXCEPT ![r] = "done"]
    /\ UNCHANGED <<input, query, clone_config, probe, cmds, repo_cloned, result, direct, fmtVars, outVars, web>>

\* a caller holding the query calls query.extract_clone_config() itself
ExtractDirect(r) ==
    /\ r \in Procs /\ pc[r] = "done"
    /\ query[r].ok
    /\ ~direct[r].called
    /\ LET out == extract_clone_config(query[r])
       IN  direct' = [direct EXCEPT ![r] = [called |-> TRUE, raised |-> out.raised, value |-> out.value]]
    /\ UNCHANGED <<input, query, pc, clone_config, probe, cmds, repo_cloned, result, disk, fmtVars, outVars, web>>

Next ==
    \E r \in Runs :
        \/ ParseQuery(r)
        \/ StartClone(r)
        \/ SkipClone(r)
        \/ Makedirs(r)
        \/ ProbeAuthenticated(r)
        \/ ProbeUnauthenticated(r)
        \/ EnsureGit(r)
        \/ GitCloneStart(r)
        \/ GitCloneExit(r)
        \/ CheckoutStart(r)
        \/ CheckoutExit(r)
        \/ Timeout(r)
        \/ IngestQuery(r)
        \/ Finally(r)
        \/ ExtractDirect(r)

\* one call of format_node(node, query)
FormatNode ==
    /\ node.type # "NONE"
    /\ Len(ret) < MaxCalls
    /\ LET out == format_node(node, fmt_query)
       IN  /\ ret' = Append(ret, out.triple)
           /\ node' = out.node
           /\ fenced' = out.fenced
    /\ UNCHANGED <<fmt_query, cloneVars, web>>

NextFormat == FormatNode

\* process_query, the try block: parse_query, clone_repo, ingest_query and the
\* write of the digest file; any exception goes to the except block
WebTry ==
    /\ web.pc = "start"
    /\ LET out == format_node_enc(web.tree, WebQuery(web.github_token), web.enc)
       IN  web' = IF web.fails.text # NoError
                  THEN [web EXCEPT !.pc = "except", !.exc = web.fails.text]
                  ELSE IF out.raised # NoError
                  THEN [web EXCEPT !.pc = "except", !.exc = out.raised]
                  ELSE [web EXCEPT !.pc = "success", !.summary = out.triple[1],
                                   !.digest = out.triple[2] \o "\n" \o out.triple[3]]
    /\ UNCHANGED <<cloneVars, fmtVars>>

\* process_query, the except block: the error page for str(exc)
WebExcept ==
    /\ web.pc = "except"
    /\ web' = [web EXCEPT !.pc = "done",
                          !.error_message = error_message_for(web.exc, web.github_token),
                          !.response = "error page"]
    /\ UNCHANGED <<cloneVars, fmtVars>>

\* process_query after the try statement: _print_success, then the result
\* page; an exception of _print_success leaves process_query
WebSuccess ==
    /\ web.pc = "success"
    /\ LET err == _print_success(web.summary)
       IN  web' = IF err # NoError
                  THEN [web EXCEPT !.pc = "done", !.response = "raised", !.exc = err]
                  ELSE [web EXCEPT !.pc = "done", !.response = "result page"]
    /\ UNCHANGED <<cloneVars, fmtVars>>

NextWeb == WebTry \/ WebExcept \/ WebSuccess

Spec == Init /\ [][Next]_vars

SpecConc == InitConc /\ [][Next]_vars

SpecWrite == InitWrite /\ [][Next]_vars

SpecFormat == InitFormat /\ [][NextFormat]_vars

SpecSummary == InitSummary /\ [][NextFormat]_vars

\* One digest run in which no external step need ever finish: the steps
\* clone_repo takes by itself and the expiry of its timeout do happen
SpecTimeout ==
    /\ InitTimeout
    /\ [][Next]_vars
    /\ \A r \in Runs : /\ WF_vars(Makedirs(r))
                       /\ WF_vars(GitCloneStart(r))
                       /\ WF_vars(CheckoutStart(r))
                       /\ WF_vars(Timeout(r))

SpecProbe == InitProbe /\ [][Next]_vars

SpecWeb == InitWeb /\ [][NextWeb]_vars

-----------------------------------------------------------------------------
(* The claims *)

IsClone(cmd) == Len(cmd) >= 2 /\ cmd[1] = "git" /\ cmd[2] = "clone"

\* the pcs of a run that is inside clone_repo
ClonePcs == {"makedirs", "probe", "ensure_git", "git_clone", "clone_wait", "checkout", "checkout_wait"}

\* C1: with a token set, once the authenticated existence probe has answered
\* 404 the run has ended with the repository-not-found error and has started
\* no git process
C1_Probe404StopsClone ==
    \A r \in Procs :
        (probe[r].kind = "auth" /\ probe[r].resp = "404")
            => /\ cmds[r] = <<>>
               /\ pc[r] \in {"finally", "done"}
               /\ result[r] = NotFound

\* C2: every git clone command clone_repo starts holds --depth=1 exactly when
\* the CloneConfig has no commit, whatever the branch, subpath, blob and token
C2_DepthOnlyWithoutCommit ==
    \A r \in Procs : \A i \in 1..Len(cmds[r]) :
        IsClone(cmds[r][i])
            => (HasArg(cmds[r][i], "--depth=1") <=> clone_config[r].commit = None)

\* a clone was started for a commit, with a branch, a subpath, a blob and a token
C2_Witness ==
    \E r \in Procs :
        /\ Len(cmds[r]) >= 1 /\ IsClone(cmds[r][1])
        /\ clone_config[r].commit = "abc123"
        /\ clone_config[r].branch = "dev"
        /\ clone_config[r].subpath = "/src/a.py"
        /\ clone_config[r].blob
        /\ clone_config[r].pat_token = Token

\* C3: while a run is cloning into or reading its own clone directory, no step
\* of another run that completes (its cleanup included) removes that directory
C3_CleanupSparesOtherRuns ==
    [][\A r \in Procs : \A o \in Procs \ {r} :
          (/\ pc[r] # "done" /\ pc'[r] = "done"
           /\ pc[o] \in {"clone_wait", "checkout", "checkout_wait", "ingest"}
           /\ Dir(o) # Dir(r)
           /\ Dir(o) \in disk)
              => Dir(o) \in disk']_vars

\* C4: when a run on a remote source returns or raises, its clone directory is
\* gone if keep_temp is false, and was not deleted by the run if keep_temp is true
C4_TempDirGoneOnReturn ==
    [][\A r \in Procs :
          (pc[r] # "done" /\ pc'[r] = "done" /\ Truthy(input[r].url))
              => IF input[r].keep_temp
                 THEN Dir(r) \in disk => Dir(r) \in disk'
                 ELSE Dir(r) \notin disk']_vars

\* C5: with a token, the URL given to git clone holds the token as user-info
\* when the host is github.com, and for every other host it is the original
\* URL and no argument of the command holds the token
C5_TokenOnlyToGithub ==
    \A r \in Procs : \A i \in 1..Len(cmds[r]) :
        (IsClone(cmds[r][i]) /\ Truthy(clone_config[r].pat_token))
            => LET cmd == cmds[r][i]
                   url == clone_config[r].url
                   tok == clone_config[r].pat_token
               IN  IF StartsWith(url, "https://github.com/")
                   THEN cmd[Len(cmd) - 1] = "https://" \o tok \o "@github.com/o/r"
                   ELSE /\ cmd[Len(cmd) - 1] = url
                        /\ \A k \in 1..Len(cmd) : ~Contains(cmd[k], tok)

\* C6: extract_clone_config raises exactly when the query's url is None or
\* empty and returns a CloneConfig otherwise; a run on a local source (url
\* None) has no CloneConfig and never enters clone_repo
C6_ExtractFailsIffNoUrl ==
    \A r \in Procs :
        /\ direct[r].called
              => /\ direct[r].raised <=> query[r].url \in {None, ""}
                 /\ ~direct[r].raised <=> direct[r].value.ok
        /\ (query[r].ok /\ query[r].url = None)
              => /\ clone_config[r] = NoConfig
                 /\ probe[r] = NoProbe
                 /\ cmds[r] = <<>>
                 /\ ~repo_cloned[r]
                 /\ pc[r] \notin ClonePcs

\* a local source was digested without a clone and planning it raised
C6_Witness ==
    \E r \in Procs :
        /\ query[r].ok /\ query[r].url = None
        /\ result[r] = "digest"
        /\ direct[r].called /\ direct[r].raised

\* C7: the CloneConfig extract_clone_config returns has the query's url,
\* commit, branch, subpath and pat_token, the string form of its local_path,
\* and blob = (type = "blob")
C7_ConfigMirrorsQuery ==
    \A r \in Procs :
        LET Mirrors(c, q) ==
                /\ c.url = q.url
                /\ c.commit = q.commit
                /\ c.branch = q.branch
                /\ c.subpath = q.subpath
                /\ c.pat_token = q.pat_token
                /\ c.local_path = "/tmp/gitingest/id-" \o r \o "/o-r"
                /\ c.blob = (q.type = "blob")
        IN  /\ (direct[r].called /\ ~direct[r].raised) => Mirrors(direct[r].value, query[r])
            /\ clone_config[r].ok => Mirrors(clone_config[r], query[r])

\* a config was extracted from a query for a directory (not a blob) below the root
C7_Witness ==
    \E r \in Procs :
        /\ direct[r].called /\ ~direct[r].raised
        /\ query[r].subpath = "/src" /\ query[r].type = None
        /\ query[r].branch = "dev" /\ query[r].commit = "abc123"
        /\ ~direct[r].value.blob

\* C8 as stated: construction succeeds exactly for the formats text, json, markdown
C8_FormatsTextJsonMarkdown ==
    \A r \in Procs :
        pc[r] # "start" => (query[r].ok <=> input[r].output_format \in {"text", "json", "markdown"})

\* C8 amended: construction succeeds exactly for the formats txt, json and
\* markdown; for every other value (text included) it fails at once: no query
\* exists, the run ends with the validation error and nothing was cloned
C8_FormatsTxtJsonMarkdown ==
    \A r \in Procs :
        pc[r] # "start"
            => /\ query[r].ok <=> input[r].output_format \in {"txt", "json", "markdown"}
               /\ ~query[r].ok
                     => /\ query[r] = NoQuery
                        /\ result[r] = "ValidationError"
                        /\ pc[r] \in {"finally", "done"}
                        /\ cmds[r] = <<>>

\* the format text was refused at construction
C8_Witness ==
    \E r \in Procs :
        /\ input[r].output_format = "text"
        /\ pc[r] = "done"
        /\ query[r] = NoQuery
        /\ result[r] = "ValidationError"

C10_FormatTwiceSame ==
    Len(ret) >= 2 => ret[1] = ret[2]

EndsWith(s, t) == Len(s) >= Len(t) /\ SubSeq(s, Len(s) - Len(t) + 1, Len(s)) = t

\* the markdown document with every escaped triple backtick put back
Unescaped(doc) == Replace(doc, Escaped3, BQ3)

\* C11: the markdown output of format_node, with each escaped triple backtick
\* replaced by three backticks, holds between its Directory Structure and File
\* Contents fences exactly the tree and the content that format_node returns
\* for the same tree in txt format
C11_MarkdownUnescapedIsText ==
    (fmt_query.ok /\ fmt_query.output_format = "markdown" /\ Len(ret) >= 1)
        => LET txt == format_node(node, [fmt_query EXCEPT !.output_format = "txt"]).triple
               doc == Unescaped(ret[Len(ret)][1])
               tail == (IF txt[2] # "" THEN Fence("Directory Structure", txt[2]) ELSE "")
                       \o (IF txt[3] # "" THEN Fence("File Contents", txt[3]) ELSE "")
               head == SubSeq(doc, 1, Len(doc) - Len(tail))
           IN  /\ EndsWith(doc, tail)
               /\ ~Contains(head, "## Directory Structure")
               /\ ~Contains(head, "## File Contents")

RECURSIVE Split(_, _)
\* str.split(sep)
Split(s, sep) ==
    LET i == Find(s, sep)
    IN  IF i = 0 THEN <<s>>
        ELSE <<SubSeq(s, 1, i - 1)>> \o Split(SubSeq(s, i + Len(sep), Len(s)), sep)

\* the keys of a pretty-printed JSON object of strings, in order: the member
\* lines are the lines indented by two spaces (a line break inside a value is
\* written \n, never as a line break)
JsonKeys(doc) ==
    LET lines == Split(doc, "\n")
        members == SelectSeq(lines, LAMBDA l : StartsWith(l, "  \""))
    IN  [i \in 1..Len(members) |-> SubSeq(members[i], 4, Find(members[i], "\": ") - 1)]

\* C12: in json format format_node returns (jsonString, "", "") and the object
\* has the key summary, structure or content exactly when its flag is true,
\* also when the section's text is empty, and no other key
C12_JsonKeysFollowFlags ==
    (fmt_query.ok /\ fmt_query.output_format = "json")
        => \A i \in 1..Len(ret) :
              LET keys == JsonKeys(ret[i][1])
                  want == (IF fmt_query.include_summary THEN <<"summary">> ELSE <<>>)
                          \o (IF fmt_query.include_structure THEN <<"structure">> ELSE <<>>)
                          \o (IF fmt_query.include_content THEN <<"content">> ELSE <<>>)
              IN  /\ ret[i][2] = "" /\ ret[i][3] = ""
                  /\ keys = want
                  /\ StartsWith(ret[i][1], "{") /\ EndsWith(ret[i][1], "}")

\* a json call with only the content flag set, on a file whose content is empty
C12_Witness ==
    /\ fmt_query.ok /\ fmt_query.output_format = "json"
    /\ ~fmt_query.include_summary /\ ~fmt_query.include_structure /\ fmt_query.include_content
    /\ node.type = "FILE" /\ node.content = ""
    /\ Len(ret) >= 1
    /\ JsonKeys(ret[1][1]) = <<"content">>

\* the run of ingest_async returned its digest and wrote the output file
Wrote(r) == pc[r] = "done" /\ result[r] = "digest" /\ input[r].output # None

\* C13: the output file of a json or markdown run is exactly the serialized
\* string format_node produced; the file of a txt run is the tree, a newline
\* and the content, with only the sections whose flag is set
C13_FileIsTheDigest ==
    \A r \in Procs :
        Wrote(r)
            => IF query[r].output_format \in {"json", "markdown"}
               THEN written[r] = returned[r][1]
               ELSE written[r] = Join((IF query[r].include_structure THEN <<returned[r][2]>> ELSE <<>>)
                                      \o (IF query[r].include_content THEN <<returned[r][3]>> ELSE <<>>),
                                      "\n")

RECURSIVE LeafContents(_)
\* the text of every leaf (every node that is not a directory) under n, in
\* depth-first pre-order following the children order
LeafContents(n) ==
    IF n.type # "DIRECTORY" THEN <<content_string(n)>>
    ELSE LET below[i \in 0..Len(n.children)] ==
                 IF i = 0 THEN <<>> ELSE below[i - 1] \o LeafContents(n.children[i])
         IN  below[Len(n.children)]

\* C14: the content format_node returns is the texts of the leaves under the
\* tree, in pre-order, joined by single newlines; a directory, empty or not,
\* adds no character and no separator of its own
C14_ContentIsJoinedLeaves ==
    (fmt_query.ok /\ fmt_query.output_format = "txt" /\ fmt_query.include_content)
        => \A i \in 1..Len(ret) : ret[i][3] = Join(LeafContents(node), "\n")

\* how many of the lines are exactly this line
Times(lines, l) == Cardinality({i \in 1..Len(lines) : lines[i] = l})

\* how many of the lines start with this label
Labelled(lines, label) == Cardinality({i \in 1..Len(lines) : StartsWith(lines[i], label)})

\* the number of lines of a text: one per line break, and one for a last line without one
LinesOf(text) ==
    IF text = "" THEN 0
    ELSE Len(Split(text, "\n")) - (IF EndsWith(text, "\n") THEN 1 ELSE 0)

\* C17: the summary names the commit when one is set, and then no branch;
\* otherwise the branch, only when it is set and is not main or master; the
\* subpath exactly when it is not "/" and the root is not a single file; a
\* directory root adds its file count, a single-file root its line count
C17_SummaryHeader ==
    (fmt_query.ok /\ fmt_query.output_format = "txt" /\ fmt_query.include_summary)
        => \A i \in 1..Len(ret) :
              LET lines == Split(ret[i][1], "\n")
                  q == fmt_query
              IN  /\ IF q.commit # None
                     THEN /\ Times(lines, "Commit: " \o q.commit) = 1
                          /\ Labelled(lines, "Commit: ") = 1
                          /\ Labelled(lines, "Branch: ") = 0
                     ELSE /\ Labelled(lines, "Commit: ") = 0
                          /\ IF q.branch # None /\ q.branch \notin {"main", "master"}
                             THEN /\ Times(lines, "Branch: " \o q.branch) = 1
                                  /\ Labelled(lines, "Branch: ") = 1
                             ELSE Labelled(lines, "Branch: ") = 0
                  /\ IF q.subpath # "/" /\ node.type # "FILE"
                     THEN Times(lines, "Subpath: " \o q.subpath) = 1 /\ Labelled(lines, "Subpath: ") = 1
                     ELSE Labelled(lines, "Subpath: ") = 0
                  /\ IF node.type = "DIRECTORY"
                     THEN Times(lines, "Files analyzed: " \o ToString(node.file_count)) = 1
                     ELSE Labelled(lines, "Files analyzed: ") = 0
                  /\ IF node.type = "FILE"
                     THEN Times(lines, "Lines: " \o ToString(LinesOf(node.content))) = 1
                     ELSE Labelled(lines, "Lines: ") = 0

\* the summary of a directory below the root of a repository at a commit,
\* with a branch that is not named
C17_Witness ==
    /\ fmt_query.ok /\ fmt_query.output_format = "txt" /\ fmt_query.include_summary
    /\ fmt_query.commit = "abc123" /\ fmt_query.branch = "dev" /\ fmt_query.subpath = "/src"
    /\ node.type = "DIRECTORY" /\ node.file_count = 2
    /\ Len(ret) >= 1
    /\ Times(Split(ret[1][1], "\n"), "Commit: abc123") = 1
    /\ Times(Split(ret[1][1], "\n"), "Files analyzed: 2") = 1

RECURSIVE Paths(_)
\* the nodes of a tree, each as the child indices that lead to it from the root
Paths(n) ==
    {<<>>} \cup (IF n.type # "DIRECTORY" THEN {}
                 ELSE UNION {{<<i>> \o p : p \in Paths(n.children[i])} : i \in 1..Len(n.children)})

RECURSIVE NodeAt(_, _)
NodeAt(n, p) == IF p = <<>> THEN n ELSE NodeAt(n.children[Head(p)], Tail(p))

\* p comes before q in depth-first pre-order
Before(p, q) ==
    \/ Len(p) < Len(q) /\ SubSeq(q, 1, Len(p)) = p
    \/ \E k \in 1..Len(p) :
          /\ k <= Len(q)
          /\ SubSeq(p, 1, k - 1) = SubSeq(q, 1, k - 1)
          /\ p[k] < q[k]

\* the node at p is the last child of its parent; the root counts as last
IsLastAt(n, p) ==
    p = <<>> \/ p[Len(p)] = Len(NodeAt(n, SubSeq(p, 1, Len(p) - 1)).children)

\* the line the claim gives the node at p: one segment per ancestor, the entry
\* marker, the name, and "/" after a directory
TreeLine(n, p) ==
    LET segs[j \in 0..Len(p)] ==
            IF j = 0 THEN ""
            ELSE segs[j - 1] \o (IF IsLastAt(n, SubSeq(p, 1, j - 1)) THEN LastCont ELSE MidCont)
        m == NodeAt(n, p)
    IN  segs[Len(p)]
        \o (IF IsLastAt(n, p) THEN LastMark ELSE MidMark)
        \o m.name
        \o (IF m.type = "DIRECTORY" THEN "/" ELSE IF m.type = "SYMLINK" THEN " -> " \o m.link ELSE "")

\* C18: the tree rendering has one line per node, in depth-first pre-order in
\* the children order given; the entry marker is the last-sibling marker
\* exactly for a last child (and the root); the prefix has one segment per
\* ancestor, blank for a last sibling and a bar otherwise; directories end with /
C18_TreeLines ==
    (fmt_query.ok /\ fmt_query.output_format = "txt" /\ fmt_query.include_structure)
        => \A i \in 1..Len(ret) :
              LET lines == Split(ret[i][2], "\n")
                  paths == Paths(node)
              IN  /\ Len(lines) = Cardinality(paths) + 2
                  /\ lines[1] = "Directory structure:"
                  /\ lines[Len(lines)] = ""
                  /\ \A p \in paths :
                        lines[Cardinality({o \in paths : Before(o, p)}) + 2] = TreeLine(node, p)

\* a tree whose first child is a directory of two files, followed by a file:
\* the files of that directory are drawn behind a bar segment
C18_Witness ==
    /\ fmt_query.ok /\ fmt_query.output_format = "txt" /\ fmt_query.include_structure
    /\ Len(ret) >= 1
    /\ node.type = "DIRECTORY" /\ Len(node.children) = 2
    /\ node.children[1].type = "DIRECTORY" /\ Len(node.children[1].children) = 2
    /\ Contains(ret[1][2], "\n" \o LastCont \o MidMark \o "d/\n"
                             \o LastCont \o MidCont \o MidMark \o "b\n"
                             \o LastCont \o MidCont \o LastMark \o "b\n"
                             \o LastCont \o LastMark)


\* the text of a summary after "Estimated tokens: ", or None without the line
Estimate(summary) ==
    LET i == Find(summary, "\nEstimated tokens: ")
    IN  IF i = 0 THEN None ELSE From(summary, i + Len("\nEstimated tokens: "))

\* tenths written with one decimal place and a suffix
Tenths(t, suffix) == ToString(t \div 10) \o "." \o ToString(t % 10) \o suffix

\* s is n/unit to one decimal place: the nearest tenth, either one on a tie
IsOneDecimalOf(s, n, unit, suffix) ==
    \E t \in {(10 * n) \div unit, (10 * n) \div unit + 1} :
        /\ s = Tenths(t, suffix)
        /\ 2 * (10 * n - t * unit) <= unit
        /\ 2 * (t * unit - 10 * n) <= unit

\* C15: the token estimate of a count n is the plain integer below 1,000,
\* n/1,000 to one decimal place with suffix k from 1,000 to 999,999, and
\* n/1,000,000 to one decimal place with suffix M from 1,000,000 on; 999 gives
\* "999" and 1,000,000 gives "1.0M".
C15_TokenEstimateRendering ==
    (web.pc \in {"success", "done"} /\ web.enc.kind = "count" /\ web.summary # None)
        => LET n == web.enc.n
               s == Estimate(web.summary)
           IN  /\ n < 1000 => s = ToString(n)
               /\ (n >= 1000 /\ n <= 999999) => IsOneDecimalOf(s, n, 1000, "k")
               /\ n >= 1000000 => IsOneDecimalOf(s, n, 1000000, "M")
               /\ n = 999 => s = "999"
               /\ n = 1000000 => s = "1.0M"

C15_Witness ==
    /\ web.pc = "done" /\ web.response = "result page"
    /\ web.enc = CountEncoder(1000000)
    /\ Estimate(web.summary) = "1.0M"

\* C16: when the tokenizer fails, for any reason, the request still ends with
\* its result page, whose summary has no Estimated tokens line: no error
\* reaches the caller of format_node or of process_query.
C16_TokenizerFailureIsSilent ==
    (web.pc = "done" /\ web.enc.kind = "raises")
        => /\ web.response = "result page"
           /\ web.summary # None
           /\ ~Contains(web.summary, "Estimated tokens")

\* C20: an error text holding the SAML SSO phrase with an organization name
\* and an SSO URL gives the SSO message, whatever else the text holds, with
\* that name and that URL; a text lacking either part gives another message.
C20_SsoClassification ==
    (web.pc = "done" /\ web.fails.text # NoError)
        => LET sso == StartsWith(web.error_message, "SAML SSO Authentication Required")
           IN  IF web.fails.org # None /\ web.fails.sso_url # None
               THEN /\ sso
                    /\ Contains(web.error_message,
                                "The '" \o web.fails.org \o "' organization requires")
                    /\ Contains(web.error_message, "href=\"" \o web.fails.sso_url \o "\"")
               ELSE ~sso

\* C19: clone_repo, once entered, always leaves: it returns, it raises, or
\* its 60-second timeout cancels the step in flight (the existence probe or
\* a git process) and it raises the timeout error.
C19_CloneRepoEnds ==
    \A r \in Runs : (r \in Procs /\ pc[r] \in ClonePcs) ~> (r \in Procs /\ pc[r] \notin ClonePcs)

C19_Witness ==
    /\ pc["A"] = "finally" /\ probe["A"] = NoProbe
    /\ result["A"] = "AsyncTimeoutError: Operation timed out after 60 seconds"

\* C21: when the CloneConfig has both a subpath other than "/" and a commit,
\* a finished clone_repo has run, after git clone, one git command for
\* sparse-checkout set and then another for checkout of the commit, and no
\* sparse-checkout command has the commit among its arguments.
C21_SparseThenCheckout ==
    \A r \in Procs :
        (clone_config[r].ok /\ partial_clone(clone_config[r]) /\ Truthy(clone_config[r].commit))
            => /\ \A i \in 1..Len(cmds[r]) :
                    HasArg(cmds[r][i], "sparse-checkout") => ~HasArg(cmds[r][i], clone_config[r].commit)
               /\ repo_cloned[r]
                    => /\ Len(cmds[r]) = 3
                       /\ HasArg(cmds[r][2], "sparse-checkout")
                       /\ ~HasArg(cmds[r][2], "checkout")
                       /\ HasArg(cmds[r][3], "checkout")
                       /\ HasArg(cmds[r][3], clone_config[r].commit)

GitMissing == "RuntimeError: Git is not installed"
TimedOut == "AsyncTimeoutError: Operation timed out after 60 seconds"

\* C22: with a token, after the authenticated probe failed otherwise than by
\* a definitive not-found (an unexpected status, a network or TLS error),
\* clone_repo has printed its warning and gone on: it is about to start git
\* clone or has started it, unless git is missing or the timeout expired.
C22_ProbeFailureGoesOn ==
    \A r \in Procs :
        (probe[r].kind = "auth" /\ probe[r].resp \notin {"200", "404"})
            => /\ probe[r].warned
               /\ \/ pc[r] \in {"ensure_git", "git_clone"}
                  \/ Len(cmds[r]) >= 1 /\ IsClone(cmds[r][1])
                  \/ cmds[r] = <<>> /\ result[r] \in {GitMissing, TimedOut}

\* git clone was started after the probe could not connect
C22_Witness ==
    \E r \in Procs :
        /\ probe[r].kind = "auth" /\ probe[r].resp = "ClientError"
        /\ Len(cmds[r]) = 1 /\ IsClone(cmds[r][1])

\* C23: without a token, once the existence probe has reported that the
\* repository does not exist, clone_repo has ended with "Repository not found
\* or access denied" and no git process was started.
C23_AnonymousNotFoundStops ==
    \A r \in Procs :
        (probe[r].kind = "anon" /\ probe[r].resp = "False")
            => /\ cmds[r] = <<>>
               /\ pc[r] \in {"finally", "done"}
               /\ result[r] = NotFound
               /\ ~repo_cloned[r]

C23_Witness ==
    \E r \in Procs :
        /\ probe[r].kind = "anon" /\ probe[r].resp = "False"
        /\ clone_config[r].pat_token = None
        /\ pc[r] = "done" /\ result[r] = NotFound

\* the place of a step of clone_repo in its order
Rank(p) ==
    CASE p = "makedirs" -> 1 [] p = "probe" -> 2 [] p = "ensure_git" -> 3
      [] p = "git_clone" -> 4 [] p = "clone_wait" -> 5 [] p = "checkout" -> 6
      [] p = "checkout_wait" -> 7 [] OTHER -> 8

\* the errors of the steps the claim calls fatal
FatalErrors ==
    {"OSError: Failed to create parent directory", "RuntimeError: git clone failed",
     "RuntimeError: git checkout failed"}

\* what clone_repo has done when it is at, or has failed with, each step
C24_StepsDone(r) ==
    /\ pc[r] = "makedirs" => probe[r] = NoProbe /\ cmds[r] = <<>>
    /\ pc[r] = "probe" => probe[r] = NoProbe /\ cmds[r] = <<>>
    /\ cmds[r] # <<>> => probe[r] # NoProbe /\ IsClone(cmds[r][1])
    /\ Len(cmds[r]) <= 2
    /\ Len(cmds[r]) = 2 => ~IsClone(cmds[r][2]) /\ needs_checkout(clone_config[r])
    /\ result[r] = "OSError: Failed to create parent directory"
          => probe[r] = NoProbe /\ cmds[r] = <<>>
    /\ result[r] = "RuntimeError: git clone failed" => Len(cmds[r]) = 1
    /\ result[r] = "RuntimeError: git checkout failed" => Len(cmds[r]) = 2
    /\ result[r] \in FatalErrors => pc[r] \in {"finally", "done"} /\ ~repo_cloned[r]

\* C24: clone_repo creates the parent directory, probes, runs git clone and
\* then the post-clone command, in that order; a failure of the directory
\* creation, of git clone or of the post-clone command ends it with the
\* error, and no step is started afterwards or run again.
C24_StepsInOrder ==
    /\ [](\A r \in Procs : C24_StepsDone(r))
    /\ [][\A r \in Procs :
            /\ (pc[r] \in ClonePcs /\ pc'[r] \in ClonePcs /\ pc'[r] # pc[r])
                  => Rank(pc'[r]) > Rank(pc[r])
            /\ (pc[r] \in ClonePcs /\ pc'[r] \notin ClonePcs) => pc'[r] \in {"ingest", "finally"}
            /\ pc[r] \in {"ingest", "finally", "done"}
                  => /\ pc'[r] \notin ClonePcs
                     /\ cmds'[r] = cmds[r]
                     /\ probe'[r] = probe[r]
            /\ (result[r] \notin FatalErrors /\ result'[r] \in FatalErrors) => pc'[r] = "finally"]_vars

\* the post-clone command failed after the directory, the probe and the clone
C24_Witness ==
    \E r \in Procs :
        /\ result[r] = "RuntimeError: git checkout failed"
        /\ pc[r] = "done" /\ Len(cmds[r]) = 2 /\ probe[r] # NoProbe

\* the branch a git clone --single-branch command fetches: the one after
\* --branch, or the remote's default branch
FetchedBranch(cmd) ==
    IF \E i \in 1..(Len(cmd) - 1) : cmd[i] = "--branch"
    THEN cmd[(CHOOSE i \in 1..(Len(cmd) - 1) : cmd[i] = "--branch") + 1]
    ELSE "<default branch>"

\* C25: for a commit requested together with a branch other than main and
\* master, git clone fetches the whole history of that branch: it has no
\* --depth=1 and is directed at the branch, so a commit that is on that
\* branch only can be checked out afterwards.
C25_CommitCloneFetchesBranch ==
    \A r \in Procs : \A i \in 1..Len(cmds[r]) :
        (/\ IsClone(cmds[r][i])
         /\ Truthy(clone_config[r].commit)
         /\ Truthy(clone_config[r].branch)
         /\ Lower(clone_config[r].branch) \notin {"main", "master"})
            => /\ ~HasArg(cmds[r][i], "--depth=1")
               /\ FetchedBranch(cmds[r][i]) = clone_config[r].branch

\* the directory sparse-checkout is to be restricted to: the subpath without
\* its leading slash, or the directory of the file for a blob
SparseDir(config) ==
    LET stripped == LStrip(config.subpath, "/")
    IN  IF config.blob THEN PosixParent(stripped) ELSE stripped

\* C26: git clone gets --filter=blob:none --sparse exactly when the subpath is
\* not "/"; exactly then a finished clone_repo has afterwards run
\* sparse-checkout set on one directory, the subpath without its leading
\* slash or, for a blob, its parent directory.
C26_SparseExactlyForSubpath ==
    \A r \in Procs :
        LET partial == clone_config[r].subpath # "/"
        IN  /\ \A i \in 1..Len(cmds[r]) :
                  /\ IsClone(cmds[r][i])
                        => /\ HasArg(cmds[r][i], "--filter=blob:none") <=> partial
                           /\ HasArg(cmds[r][i], "--sparse") <=> partial
                  /\ HasArg(cmds[r][i], "sparse-checkout")
                        => /\ partial /\ i = 2
                           /\ cmds[r][i] = <<"git", "-C", clone_config[r].local_path,
                                              "sparse-checkout", "set", SparseDir(clone_config[r])>>
            /\ (repo_cloned[r] /\ partial)
                  => \E i \in 2..Len(cmds[r]) : HasArg(cmds[r][i], "sparse-checkout")

\* C27: with a token, the owner and the repository name sent to the
\* authenticated probe are the owner segment and the repository segment of
\* the URL, the latter without a final ".git" and otherwise whole.
C27_ProbeOwnerRepo ==
    \A r \in Procs :
        probe[r].kind = "auth"
            => /\ probe[r].owner = input[r].user_name
               /\ probe[r].repo = input[r].repo_name

\* C28: for a remote source without a commit, digested as txt, the summary
\* has a "Branch: <b>" line exactly when git clone was given "--branch <b>",
\* whatever the spelling of the branch name.
C28_BranchLineIffBranchArg ==
    \A r \in Procs :
        (/\ returned[r] # <<>>
         /\ Truthy(query[r].url) /\ ~Truthy(query[r].commit)
         /\ query[r].output_format = "txt" /\ query[r].include_summary)
            => LET summary == returned[r][1]
                   cmd == cmds[r][1]
                   shown == Contains(summary, "\nBranch: ")
               IN  /\ shown <=> HasArg(cmd, "--branch")
                   /\ shown => /\ Contains(summary, "\nBranch: " \o query[r].branch \o "\n")
                               /\ FetchedBranch(cmd) = query[r].branch

====
